---- MODULE Spec2Model ----
(***************************************************************************)
(* A model of the odds-snapshot scripts:                                   *)
(*   backfill_snapshot_timestamps.py  infer_snapshot_timestamp,            *)
(*                                    process_file                         *)
(*   fetch_odds.py                    parse_market, parse_game_odds, main  *)
(*   fetch_historical_odds.py         parse_market, parse_game_odds, main  *)
(*                                                                         *)
(* Text is a sequence of one-character strings, so that slicing, regular   *)
(* expression matching and formatting are computed as the code computes    *)
(* them.  Column names and opaque cell values are texts of one atom.       *)
(***************************************************************************)
EXTENDS Integers, Sequences, FiniteSets, TLC

VARIABLES
    inferPath,      \* SpecInfer: the path handed to infer_snapshot_timestamp
    inferHour,      \* SpecInfer: historical_hour_utc
    inferResult,    \* SpecInfer: what the call returned (NotCalled before)
    path,           \* SpecBackfill: the CSV file's path
    file,           \* SpecBackfill: the CSV file's records, header first
    call,           \* SpecBackfill: the last process_file call
    prev,           \* SpecBackfill: the call before it
    parseIn,        \* SpecParse: the game and bookmaker entry handed over
    parseOut,       \* SpecParse: what each script's parse_game_odds gave
    fetchIn,        \* SpecFetch: the script run and the reply to its request
    fetchOut,       \* SpecFetch: the rows collected and the file written
    loopArgs,       \* SpecLoop: start_date, end_date and --snapshot-label
    current,        \* SpecLoop: the date the historical loop stands at
    pc,             \* SpecLoop: where main is: in the loop, done, or raised
    disk,           \* SpecLoop: the files that exist
    log             \* SpecLoop: what was done for each date visited, in order

inferVars == <<inferPath, inferHour, inferResult>>
backfillVars == <<path, file, call, prev>>
parseVars == <<parseIn, parseOut>>
fetchVars == <<fetchIn, fetchOut>>
loopVars == <<loopArgs, current, pc, disk, log>>
vars == <<inferPath, inferHour, inferResult, path, file, call, prev,
          parseIn, parseOut, fetchIn, fetchOut,
          loopArgs, current, pc, disk, log>>

----------------------------------------------------------------------------
(* Text helpers *)

DigitChars == <<"0", "1", "2", "3", "4", "5", "6", "7", "8", "9">>

IsDigit(c) == \E i \in 1..Len(DigitChars) : DigitChars[i] = c

\* Python's f"{n:02d}" for 0 <= n <= 99
Fmt02(n) == <<DigitChars[(n \div 10) + 1], DigitChars[(n % 10) + 1]>>

\* Python's raw[a:b] (0-based, end exclusive) on a text long enough
Slice(s, a, b) == SubSeq(s, a + 1, b)

EmptyText == << >>

\* Python's None, a value no text equals
PyNone == <<"<None>">>

OddsPrefix == <<"o", "d", "d", "s", "_">>
CsvSuffix == <<".", "c", "s", "v">>
HistoricalText == <<"h", "i", "s", "t", "o", "r", "i", "c", "a", "l">>

\* \d{4}-\d{2}-\d{2}
IsDate(s) ==
    /\ Len(s) = 10
    /\ \A i \in {1, 2, 3, 4, 6, 7, 9, 10} : IsDigit(s[i])
    /\ s[5] = "-"
    /\ s[8] = "-"

\* \d{8}T\d{6}Z
IsCompactStamp(s) ==
    /\ Len(s) = 16
    /\ \A i \in (1..8) \cup (10..15) : IsDigit(s[i])
    /\ s[9] = "T"
    /\ s[16] = "Z"

\* HISTORICAL_DATE_RE.match(name): ^odds_(\d{4}-\d{2}-\d{2})\.csv$
HISTORICAL_DATE_RE(name) ==
    /\ Len(name) = 19
    /\ SubSeq(name, 1, 5) = OddsPrefix
    /\ IsDate(SubSeq(name, 6, 15))
    /\ SubSeq(name, 16, 19) = CsvSuffix

\* PLAIN_DATE_RE.match(name): the same expression under another name
PLAIN_DATE_RE(name) ==
    /\ Len(name) = 19
    /\ SubSeq(name, 1, 5) = OddsPrefix
    /\ IsDate(SubSeq(name, 6, 15))
    /\ SubSeq(name, 16, 19) = CsvSuffix

\* TIMESTAMPED_RE.match(name):
\*   ^odds_(\d{4}-\d{2}-\d{2})_[^_]+_(\d{8}T\d{6}Z)\.csv$
\* Head (16 characters) and tail (21) have fixed lengths, so the label is
\* the Len(name) - 37 characters between them.
TIMESTAMPED_RE(name) ==
    /\ Len(name) >= 38
    /\ SubSeq(name, 1, 5) = OddsPrefix
    /\ IsDate(SubSeq(name, 6, 15))
    /\ name[16] = "_"
    /\ LET L == Len(name) - 37
       IN  /\ \A i \in 17..(16 + L) : name[i] # "_"
           /\ name[17 + L] = "_"
           /\ IsCompactStamp(SubSeq(name, 18 + L, 33 + L))
           /\ SubSeq(name, 34 + L, 37 + L) = CsvSuffix

\* m.group(1) of the two bare-date expressions, m.group(2) of TIMESTAMPED_RE
DateGroup(name) == SubSeq(name, 6, 15)
StampGroup(name) == SubSeq(name, Len(name) - 19, Len(name) - 4)

\* "historical" in path.parts: parts are the directory segments and the name
InParts(p, seg, segText) ==
    \/ \E i \in 1..Len(p.dirs) : p.dirs[i] = seg
    \/ p.name = segText

\* f"{raw[0:4]}-{raw[4:6]}-{raw[6:8]}T{raw[9:11]}:{raw[11:13]}:{raw[13:15]}Z"
CanonicalStamp(raw) ==
    Slice(raw, 0, 4) \o <<"-">> \o Slice(raw, 4, 6) \o <<"-">> \o Slice(raw, 6, 8)
        \o <<"T">> \o Slice(raw, 9, 11) \o <<":">> \o Slice(raw, 11, 13)
        \o <<":">> \o Slice(raw, 13, 15) \o <<"Z">>

HistoricalStampMutant(date, hour) ==
    date \o <<"T", "0", "0", ":", "0", "0", ":", "0", "0", "Z">>

\* f"{m.group(1)}T{historical_hour_utc:02d}:00:00Z"
HistoricalStamp(date, hour) ==
    date \o <<"T">> \o Fmt02(hour) \o <<":", "0", "0", ":", "0", "0", "Z">>

\* f"{m.group(1)}T00:00:00Z"
PlainStamp(date) ==
    date \o <<"T", "0", "0", ":", "0", "0", ":", "0", "0", "Z">>

infer_snapshot_timestamp(p, historical_hour_utc) ==
    IF TIMESTAMPED_RE(p.name)
    THEN CanonicalStamp(StampGroup(p.name))
    ELSE IF HISTORICAL_DATE_RE(p.name) /\ InParts(p, "historical", HistoricalText)
    THEN HistoricalStamp(DateGroup(p.name), historical_hour_utc)
    ELSE IF PLAIN_DATE_RE(p.name)
    THEN PlainStamp(DateGroup(p.name))
    ELSE EmptyText

----------------------------------------------------------------------------
(* SpecInfer: infer_snapshot_timestamp applied to paths built from parts *)

NotCalled == <<"<not called>">>

Dates == {<<"2", "0", "2", "4", "-", "0", "1", "-", "0", "5">>,
          <<"2", "0", "2", "5", "-", "1", "2", "-", "3", "1">>}

\* the six fields of a compact stamp YYYYMMDDTHHMMSSZ
Stamps == {[y |-> <<"2", "0", "2", "4">>, mo |-> <<"0", "1">>, d |-> <<"0", "5">>, h |-> <<"1", "7">>, mi |-> <<"0", "0">>, s |-> <<"0", "0">>],
           [y |-> <<"2", "0", "2", "5">>, mo |-> <<"1", "2">>, d |-> <<"3", "1">>, h |-> <<"0", "6">>, mi |-> <<"3", "0">>, s |-> <<"4", "5">>]}

\* labels: "open", "snapshot", "x", and two holding underscores
Labels == {<<"o", "p", "e", "n">>,
           <<"s", "n", "a", "p", "s", "h", "o", "t">>,
           <<"x">>,
           <<"o", "p", "e", "n", "_", "9", "p", "m">>,
           <<"o", "p", "e", "n", "_", "9", "p", "m", "_", "p", "s", "t">>}

CompactOf(st) == st.y \o st.mo \o st.d \o <<"T">> \o st.h \o st.mi \o st.s \o <<"Z">>

\* names that are neither bare-date nor labelled-and-stamped
OtherNames == {<<"n", "o", "t", "e", "s", ".", "c", "s", "v">>,
               HistoricalText,
               <<"o", "d", "d", "s", "_", "2", "0", "2", "4", "-", "0", "1", "-", "0", "5", "_", "o", "p", "e", "n", ".", "c", "s", "v">>,
               <<"o", "d", "d", "s", "_", "2", "0", "2", "4", "-", "0", "1", "-", "0", "5", "_", "_", "2", "0", "2", "4", "0", "1", "0", "5", "T", "1", "7", "0", "0", "0", "0", "Z", ".", "c", "s", "v">>,
               <<"o", "d", "d", "s", "_", "2", "0", "2", "4", "-", "1", "-", "5", ".", "c", "s", "v">>,
               <<"o", "d", "d", "s", "_", "2", "0", "2", "4", "-", "0", "1", "-", "0", "5", ".", "c", "s", "v", ".", "b", "a", "k">>,
               <<"O", "D", "D", "S", "_", "2", "0", "2", "4", "-", "0", "1", "-", "0", "5", ".", "c", "s", "v">>,
               <<"o", "d", "d", "s", "_", "2", "0", "2", "4", "-", "0", "1", "-", "0", "5", "_", "o", "p", "e", "n", "_", "2", "0", "2", "4", "0", "1", "0", "5", "1", "7", "0", "0", "0", "0", "Z", ".", "c", "s", "v">>}

Shapes ==
    [kind : {"bare"}, date : Dates]
        \cup [kind : {"stamped"}, date : Dates, label : Labels, stamp : Stamps]
        \cup [kind : {"other"}, name : OtherNames]

NameOf(sh) ==
    IF sh.kind = "bare" THEN OddsPrefix \o sh.date \o CsvSuffix
    ELSE IF sh.kind = "stamped"
    THEN OddsPrefix \o sh.date \o <<"_">> \o sh.label \o <<"_">>
             \o CompactOf(sh.stamp) \o CsvSuffix
    ELSE sh.name

DirLists == {<< >>, <<"odds-data">>, <<"odds-data", "historical">>, <<"data">>,
             <<"historical", "2024">>, <<"historical_old">>, <<"odds-data", "Historical">>}

\* argparse --historical-hour-utc, checked to lie in 0..23 by main
HistoricalHours == 0..23

NoShape == [kind |-> "none"]

InferIdle ==
    /\ inferPath = [dirs |-> << >>, name |-> EmptyText, shape |-> NoShape]
    /\ inferHour = 0
    /\ inferResult = NotCalled

InitInfer ==
    /\ \E sh \in Shapes, ds \in DirLists :
           inferPath = [dirs |-> ds, name |-> NameOf(sh), shape |-> sh]
    /\ inferHour \in HistoricalHours
    /\ inferResult = NotCalled

Infer ==
    /\ inferResult = NotCalled
    /\ inferResult' = infer_snapshot_timestamp(inferPath, inferHour)
    /\ UNCHANGED <<inferPath, inferHour>>

----------------------------------------------------------------------------
(* CSV files: a file is the sequence of its records, a record the sequence *)
(* of its cells; a blank line is the record << >>.                          *)

SNAPSHOT == <<"snapshot_taken_at_utc">>
API_SNAPSHOT == <<"api_snapshot_timestamp_utc">>
RESPONSE_RECEIVED == <<"response_received_at_utc">>
BOOKMAKER_LAST_UPDATE == <<"bookmaker_last_update_utc">>
DATE == <<"date">>

TIMESTAMP_COLUMNS ==
    <<SNAPSHOT, API_SNAPSHOT, RESPONSE_RECEIVED, BOOKMAKER_LAST_UPDATE>>

Range(s) == {s[i] : i \in 1..Len(s)}

Max(S) == CHOOSE m \in S : \A x \in S : x <= m

\* csv.DictReader.__next__: dict(zip(fieldnames, row)), the cells beyond the
\* header under restkey (None), the columns beyond the row set to restval
\* (None).  rest is << >> when the dict has no restkey entry.
DictRow(fieldnames, rec) ==
    [cells |-> [k \in Range(fieldnames) |->
                   LET last == Max({i \in 1..Len(fieldnames) : fieldnames[i] = k})
                   IN  IF last <= Len(rec) THEN rec[last] ELSE PyNone],
     rest |-> IF Len(fieldnames) < Len(rec)
              THEN SubSeq(rec, Len(fieldnames) + 1, Len(rec))
              ELSE << >>]

\* list(reader): DictReader skips the records that are blank lines
RECURSIVE DictRows(_, _)
DictRows(fieldnames, recs) ==
    IF recs = << >> THEN << >>
    ELSE IF Head(recs) = << >> THEN DictRows(fieldnames, Tail(recs))
    ELSE <<DictRow(fieldnames, Head(recs))>> \o DictRows(fieldnames, Tail(recs))

\* row.get(key, default), key in row, row[key] = value
PyGet(row, key, default) ==
    IF key \in DOMAIN row.cells THEN row.cells[key] ELSE default

HasKey(row, key) == key \in DOMAIN row.cells

SetItem(row, key, value) ==
    [row EXCEPT !.cells = [k \in (DOMAIN row.cells) \cup {key} |->
                              IF k = key THEN value ELSE row.cells[k]]]

\* truth value of a str or None
Truthy(v) == v # EmptyText /\ v # PyNone

\* the csv writer writes None as the empty string
CsvCell(v) == IF v = PyNone THEN EmptyText ELSE v

\* DictWriter._dict_to_list: the row's keys outside fieldnames raise
\* ValueError (extrasaction="raise"); the only such key is restkey
WrongFields(fieldnames, row) ==
    row.rest # << >> \/ \E k \in DOMAIN row.cells : k \notin Range(fieldnames)

RowRecord(fieldnames, row) ==
    [i \in 1..Len(fieldnames) |-> CsvCell(PyGet(row, fieldnames[i], EmptyText))]

\* writer.writerows(rows): records are written one by one until a row raises
RECURSIVE WriteRows(_, _)
WriteRows(fieldnames, rows) ==
    IF rows = << >> THEN [recs |-> << >>, raised |-> FALSE]
    ELSE IF WrongFields(fieldnames, Head(rows))
    THEN [recs |-> << >>, raised |-> TRUE]
    ELSE LET more == WriteRows(fieldnames, Tail(rows))
         IN  [recs |-> <<RowRecord(fieldnames, Head(rows))>> \o more.recs,
              raised |-> more.raised]

----------------------------------------------------------------------------
(* process_file *)

\* lines 59-62: append each timestamp column the header lacks
RECURSIVE AddColumns(_, _)
AddColumns(fieldnames, cols) ==
    IF cols = << >> THEN fieldnames
    ELSE AddColumns(IF Head(cols) \in Range(fieldnames)
                    THEN fieldnames
                    ELSE Append(fieldnames, Head(cols)),
                    Tail(cols))

SetSnapshotAlways(row, inferred_snapshot) ==
    IF inferred_snapshot # EmptyText
    THEN [row |-> SetItem(row, SNAPSHOT, inferred_snapshot), changed |-> TRUE]
    ELSE [row |-> row, changed |-> FALSE]

\* lines 73-75
SetSnapshot(row, inferred_snapshot) ==
    IF ~Truthy(PyGet(row, SNAPSHOT, EmptyText)) /\ inferred_snapshot # EmptyText
    THEN [row |-> SetItem(row, SNAPSHOT, inferred_snapshot), changed |-> TRUE]
    ELSE [row |-> row, changed |-> FALSE]

NormalizeColumnFalsy(row, col) ==
    IF ~HasKey(row, col) \/ ~Truthy(PyGet(row, col, PyNone))
    THEN [row |-> SetItem(row, col, EmptyText), changed |-> TRUE]
    ELSE [row |-> row, changed |-> FALSE]

\* lines 76-78, 79-81, 82-84: one of the three other timestamp columns
NormalizeColumn(row, col) ==
    IF ~HasKey(row, col) \/ PyGet(row, col, PyNone) = PyNone
    THEN [row |-> SetItem(row, col, EmptyText), changed |-> TRUE]
    ELSE [row |-> row, changed |-> FALSE]

\* lines 73-84: the loop body for one row
ProcessRow(row, inferred_snapshot) ==
    LET a == SetSnapshot(row, inferred_snapshot)
        b == NormalizeColumn(a.row, API_SNAPSHOT)
        c == NormalizeColumn(b.row, RESPONSE_RECEIVED)
        d == NormalizeColumn(c.row, BOOKMAKER_LAST_UPDATE)
    IN  [row |-> d.row,
         changed |-> a.changed \/ b.changed \/ c.changed \/ d.changed]

ShouldWriteDryRun(changed, dry_run) == changed

\* lines 65 and 86: if changed and not dry_run
ShouldWrite(changed, dry_run) == changed /\ ~dry_run

\* The result of a call: how it ended, the pair it returned, the file it
\* left, and whether it opened the file for writing.
process_file(p, f, historical_hour_utc, dry_run) ==
    IF f = << >>
    THEN [status |-> "returned", changed |-> FALSE, reason |-> "empty/no header",
          file |-> f, wrote |-> FALSE, inferred |-> NotCalled]
    ELSE
    LET rows == DictRows(f[1], Tail(f))
        fieldnames == AddColumns(f[1], TIMESTAMP_COLUMNS)
        changed0 == fieldnames # f[1]
    IN  IF rows = << >>
        THEN [status |-> "returned", changed |-> changed0,
              reason |-> IF changed0 THEN "header-only update"
                         ELSE "already up to date",
              file |-> IF ShouldWrite(changed0, dry_run) THEN <<fieldnames>> ELSE f,
              wrote |-> ShouldWrite(changed0, dry_run), inferred |-> NotCalled]
        ELSE
        LET inferred_snapshot == infer_snapshot_timestamp(p, historical_hour_utc)
            done == [i \in 1..Len(rows) |-> ProcessRow(rows[i], inferred_snapshot)]
            changed == changed0 \/ \E i \in 1..Len(rows) : done[i].changed
            out == WriteRows(fieldnames, [i \in 1..Len(rows) |-> done[i].row])
        IN  IF ShouldWrite(changed, dry_run)
            THEN [status |-> IF out.raised THEN "ValueError" ELSE "returned",
                  changed |-> changed,
                  reason |-> IF out.raised THEN "" ELSE "updated",
                  file |-> <<fieldnames>> \o out.recs,
                  wrote |-> TRUE, inferred |-> inferred_snapshot]
            ELSE [status |-> "returned", changed |-> changed,
                  reason |-> IF changed THEN "updated" ELSE "already up to date",
                  file |-> f, wrote |-> FALSE, inferred |-> inferred_snapshot]

----------------------------------------------------------------------------
(* SpecBackfill: repeated runs of process_file on one file *)

MaxRows == 2

OldStamp == <<"2", "0", "2", "3", "-", "1", "1", "-", "1", "1", "T", "0", "9", ":", "1", "5", ":", "0", "0", "Z">>

\* headers: "date" followed by the first k timestamp columns; the three
\* other columns without the snapshot column; the snapshot column last; a
\* blank first line
Headers ==
    {<<DATE>> \o SubSeq(TIMESTAMP_COLUMNS, 1, k) : k \in 0..4}
        \cup {<<DATE, API_SNAPSHOT, RESPONSE_RECEIVED, BOOKMAKER_LAST_UPDATE>>}
        \cup {<<DATE, API_SNAPSHOT, RESPONSE_RECEIVED, BOOKMAKER_LAST_UPDATE, SNAPSHOT>>}
        \cup {<< >>}

\* the cells a column may hold in a file on disk
CellsOf(col) ==
    IF col = SNAPSHOT THEN {EmptyText, OldStamp}
    ELSE IF col = API_SNAPSHOT THEN {EmptyText}
    ELSE {<<"v">>}

\* records under a header: blank, short, full, or one cell too long
RecordsFor(h) ==
    UNION {{r \in [1..n -> {EmptyText, OldStamp, <<"v">>, <<"extra">>}] :
               \A i \in 1..n : IF i <= Len(h) THEN r[i] \in CellsOf(h[i])
                               ELSE r[i] = <<"extra">>} :
           n \in 0..(Len(h) + 1)}

SeqsUpTo(S, n) == UNION {[1..k -> S] : k \in 0..n}

Files ==
    {<< >>} \cup UNION {{<<h>> \o rs : rs \in SeqsUpTo(RecordsFor(h), MaxRows)} :
                        h \in Headers}

\* one path per way the inference can go: the hour decides, the date alone
\* decides, no pattern matches
BackfillPaths ==
    {[dirs |-> <<"odds-data", "historical">>,
      name |-> <<"o", "d", "d", "s", "_", "2", "0", "2", "4", "-", "0", "1", "-", "0", "5", ".", "c", "s", "v">>],
     [dirs |-> <<"odds-data">>,
      name |-> <<"o", "d", "d", "s", "_", "2", "0", "2", "4", "-", "0", "1", "-", "0", "5", ".", "c", "s", "v">>],
     [dirs |-> <<"odds-data">>,
      name |-> <<"o", "d", "d", "s", "_", "2", "0", "2", "4", "-", "0", "1", "-", "0", "5", "_", "o", "p", "e", "n", ".", "c", "s", "v">>]}

BackfillHours == {5, 17}

NoCall == [status |-> "none", changed |-> FALSE, reason |-> "", wrote |-> FALSE,
           inferred |-> NotCalled, dry_run |-> FALSE, before |-> << >>]

\* what is kept of the call before the last one
Summary(c) == [status |-> c.status, changed |-> c.changed, reason |-> c.reason,
               dry_run |-> c.dry_run]

BackfillIdle ==
    /\ path = [dirs |-> << >>, name |-> EmptyText]
    /\ file = << >>
    /\ call = NoCall
    /\ prev = Summary(NoCall)

InitBackfill ==
    /\ path \in BackfillPaths
    /\ file \in Files
    /\ call = NoCall
    /\ prev = Summary(NoCall)

\* main, lines 132-133: process_file(path, args.historical_hour_utc,
\* args.dry_run); an exception ends the run, a later run starts afresh
ProcessFile ==
    \E hour \in BackfillHours, dry_run \in BOOLEAN :
        LET r == process_file(path, file, hour, dry_run)
        IN  /\ file' = r.file
            /\ call' = [status |-> r.status, changed |-> r.changed,
                        reason |-> r.reason, wrote |-> r.wrote,
                        inferred |-> r.inferred, dry_run |-> dry_run,
                        before |-> file]
            /\ prev' = Summary(call)
            /\ UNCHANGED path

----------------------------------------------------------------------------
(* parse_market and parse_game_odds, as written in each of the two scripts. *)
(* A JSON object is a record whose domain is the keys present; prices and  *)
(* points are kept as their decimal text.                                   *)

KeyError == [exception |-> "KeyError"]

Raised(r) == "exception" \in DOMAIN r

\* {o["name"]: o for o in market["outcomes"]}: a later outcome replaces an
\* earlier one of the same name
OutcomesByName(outcomes) ==
    [n \in {outcomes[i].name : i \in 1..Len(outcomes)} |->
        outcomes[Max({i \in 1..Len(outcomes) : outcomes[i].name = n})]]

parse_market_fallback(markets, market_key) ==
    LET hits == {i \in 1..Len(markets) : markets[i].key = market_key}
    IN  IF hits = {} /\ markets = << >> THEN [found |-> FALSE]
        ELSE LET market == IF hits = {} THEN markets[1]
                           ELSE markets[CHOOSE i \in hits : \A j \in hits : i <= j]
             IN  IF "outcomes" \notin DOMAIN market THEN KeyError
                 ELSE [found |-> TRUE, outcomes |-> OutcomesByName(market.outcomes)]

\* fetch_odds.py parse_market: the first market with the key, or None
parse_market(markets, market_key) ==
    LET hits == {i \in 1..Len(markets) : markets[i].key = market_key}
    IN  IF hits = {} THEN [found |-> FALSE]
        ELSE LET market == markets[CHOOSE i \in hits : \A j \in hits : i <= j]
             IN  IF "outcomes" \notin DOMAIN market THEN KeyError
                 ELSE [found |-> TRUE, outcomes |-> OutcomesByName(market.outcomes)]

\* fetch_historical_odds.py parse_market: the same function, written again
hist_parse_market(markets, market_key) ==
    LET hits == {i \in 1..Len(markets) : markets[i].key = market_key}
    IN  IF hits = {} THEN [found |-> FALSE]
        ELSE LET market == markets[CHOOSE i \in hits : \A j \in hits : i <= j]
             IN  IF "outcomes" \notin DOMAIN market THEN KeyError
                 ELSE [found |-> TRUE, outcomes |-> OutcomesByName(market.outcomes)]

\* "if m": the market was found and its dict is not empty
NonEmpty(m) == m.found /\ DOMAIN m.outcomes # {}

\* m[name]["price"] if m and name in m else "": KeyError when the outcome
\* is there without a price
PriceOrRaise(m, name) ==
    IF NonEmpty(m) /\ name \in DOMAIN m.outcomes
    THEN IF "price" \in DOMAIN m.outcomes[name]
         THEN [value |-> m.outcomes[name].price]
         ELSE KeyError
    ELSE [value |-> ""]

\* m[name].get(field, "") under "if m: if name in m:", "" otherwise
GetOrEmpty(m, name, field) ==
    IF NonEmpty(m) /\ name \in DOMAIN m.outcomes
           /\ field \in DOMAIN m.outcomes[name]
    THEN m.outcomes[name][field]
    ELSE ""

TotalLineFromUnder(totals) ==
    IF GetOrEmpty(totals, "Over", "point") # ""
    THEN GetOrEmpty(totals, "Over", "point")
    ELSE GetOrEmpty(totals, "Under", "point")

\* total_line = totals["Over"].get("point", "")
TotalLine(totals) == GetOrEmpty(totals, "Over", "point")

\* bookmaker_data.get("markets", []) and bookmaker_data.get("last_update", "")
MarketsOf(bookmaker_data) ==
    IF "markets" \in DOMAIN bookmaker_data THEN bookmaker_data.markets ELSE << >>

LastUpdateOf(bookmaker_data) ==
    IF "last_update" \in DOMAIN bookmaker_data THEN bookmaker_data.last_update
    ELSE ""

\* "NHL" if "nhl" in sport_key else sport_key.upper(), for the keys of SPORTS
SportName(sport_key) ==
    IF sport_key = "icehockey_nhl" THEN "NHL" ELSE "BASKETBALL_NBA"

\* BOOKMAKER_DISPLAY.get(key, key)
BOOKMAKER_DISPLAY(key) ==
    IF key = "betmgm" THEN "betmgm"
    ELSE IF key = "williamhill_us" THEN "caesars"
    ELSE key

MarketColumnsPaired(h2h, spreads, totals, home_team, away_team) ==
    IF Raised(h2h) \/ Raised(spreads) \/ Raised(totals) THEN KeyError
    ELSE
    LET both == NonEmpty(h2h) /\ {home_team, away_team} \subseteq DOMAIN h2h.outcomes
        ml_home == IF both THEN PriceOrRaise(h2h, home_team) ELSE [value |-> ""]
        ml_away == IF both THEN PriceOrRaise(h2h, away_team) ELSE [value |-> ""]
    IN  IF Raised(ml_home) \/ Raised(ml_away) THEN KeyError
        ELSE [ml_home |-> ml_home.value,
              ml_away |-> ml_away.value,
              spread_home |-> GetOrEmpty(spreads, home_team, "point"),
              spread_home_odds |-> GetOrEmpty(spreads, home_team, "price"),
              spread_away |-> GetOrEmpty(spreads, away_team, "point"),
              spread_away_odds |-> GetOrEmpty(spreads, away_team, "price"),
              total_line |-> TotalLine(totals),
              total_over_odds |-> GetOrEmpty(totals, "Over", "price"),
              total_under_odds |-> GetOrEmpty(totals, "Under", "price")]

\* fetch_odds.py parse_game_odds, lines 80-109: the nine market columns of a
\* row, or KeyError
MarketColumns(h2h, spreads, totals, home_team, away_team) ==
    IF Raised(h2h) \/ Raised(spreads) \/ Raised(totals) THEN KeyError
    ELSE
    LET ml_home == PriceOrRaise(h2h, home_team)
        ml_away == PriceOrRaise(h2h, away_team)
    IN  IF Raised(ml_home) \/ Raised(ml_away) THEN KeyError
        ELSE [ml_home |-> ml_home.value,
              ml_away |-> ml_away.value,
              spread_home |-> GetOrEmpty(spreads, home_team, "point"),
              spread_home_odds |-> GetOrEmpty(spreads, home_team, "price"),
              spread_away |-> GetOrEmpty(spreads, away_team, "point"),
              spread_away_odds |-> GetOrEmpty(spreads, away_team, "price"),
              total_line |-> TotalLine(totals),
              total_over_odds |-> GetOrEmpty(totals, "Over", "price"),
              total_under_odds |-> GetOrEmpty(totals, "Under", "price")]

\* fetch_historical_odds.py parse_game_odds, lines 100-129: the same lines
hist_MarketColumns(h2h, spreads, totals, home_team, away_team) ==
    IF Raised(h2h) \/ Raised(spreads) \/ Raised(totals) THEN KeyError
    ELSE
    LET ml_home == PriceOrRaise(h2h, home_team)
        ml_away == PriceOrRaise(h2h, away_team)
    IN  IF Raised(ml_home) \/ Raised(ml_away) THEN KeyError
        ELSE [ml_home |-> ml_home.value,
              ml_away |-> ml_away.value,
              spread_home |-> GetOrEmpty(spreads, home_team, "point"),
              spread_home_odds |-> GetOrEmpty(spreads, home_team, "price"),
              spread_away |-> GetOrEmpty(spreads, away_team, "point"),
              spread_away_odds |-> GetOrEmpty(spreads, away_team, "price"),
              total_line |-> TotalLine(totals),
              total_over_odds |-> GetOrEmpty(totals, "Over", "price"),
              total_under_odds |-> GetOrEmpty(totals, "Under", "price")]

\* the row dict: the identity columns and the market columns
RowOf(ident, cols) ==
    IF Raised(cols) THEN KeyError
    ELSE [k \in (DOMAIN ident) \cup (DOMAIN cols) |->
             IF k \in DOMAIN ident THEN ident[k] ELSE cols[k]]

\* fetch_odds.py parse_game_odds
parse_game_odds(game, bookmaker_data, today_str, snapshot_taken_at_utc, response_received_at_utc) ==
    LET markets == MarketsOf(bookmaker_data)
    IN  RowOf([date |-> today_str,
               sport |-> SportName(game.sport_key),
               game_id |-> game.id,
               commence_time |-> game.commence_time,
               snapshot_taken_at_utc |-> snapshot_taken_at_utc,
               api_snapshot_timestamp_utc |-> "",
               response_received_at_utc |-> response_received_at_utc,
               bookmaker_last_update_utc |-> LastUpdateOf(bookmaker_data),
               home_team |-> game.home_team,
               away_team |-> game.away_team,
               bookmaker |-> bookmaker_data.key],
              MarketColumns(parse_market(markets, "h2h"),
                            parse_market(markets, "spreads"),
                            parse_market(markets, "totals"),
                            game.home_team, game.away_team))

\* fetch_historical_odds.py parse_game_odds
hist_parse_game_odds(game, bookmaker_data, date_str, snapshot_taken_at_utc, api_snapshot_timestamp_utc, response_received_at_utc) ==
    LET markets == MarketsOf(bookmaker_data)
    IN  RowOf([date |-> date_str,
               sport |-> "NHL",
               game_id |-> game.id,
               commence_time |-> game.commence_time,
               snapshot_taken_at_utc |-> snapshot_taken_at_utc,
               api_snapshot_timestamp_utc |-> api_snapshot_timestamp_utc,
               response_received_at_utc |-> response_received_at_utc,
               bookmaker_last_update_utc |-> LastUpdateOf(bookmaker_data),
               home_team |-> game.home_team,
               away_team |-> game.away_team,
               bookmaker |-> BOOKMAKER_DISPLAY(bookmaker_data.key)],
              hist_MarketColumns(hist_parse_market(markets, "h2h"),
                                 hist_parse_market(markets, "spreads"),
                                 hist_parse_market(markets, "totals"),
                                 game.home_team, game.away_team))

----------------------------------------------------------------------------
(* SpecParse: both parse_game_odds applied to one game and bookmaker entry *)

MaxOutcomes == 2
MaxMarkets == 2

Games ==
    {[id |-> "g1", sport_key |-> "icehockey_nhl",
      commence_time |-> "2024-01-06T00:00:00Z",
      home_team |-> "Boston Bruins", away_team |-> "New York Rangers"]}

MarketKeys == {"h2h", "spreads", "totals"}

\* the outcome names the API gives a market of a game
NamesOf(game, key) ==
    IF key = "totals" THEN {"Over", "Under"}
    ELSE {game.home_team, game.away_team}

PriceOf(name) ==
    IF name = "Over" THEN "-105"
    ELSE IF name = "Under" THEN "-115"
    ELSE IF name = "Boston Bruins" THEN "-150"
    ELSE "+130"

PointOf(name) ==
    IF name = "Over" THEN "5.5"
    ELSE IF name = "Under" THEN "6.0"
    ELSE IF name = "Boston Bruins" THEN "-1.5"
    ELSE "+1.5"

\* an outcome: its name with price and point, with the price alone, or alone
OutcomesOf(game, key) ==
    UNION {{[name |-> n, price |-> PriceOf(n), point |-> PointOf(n)],
            [name |-> n, price |-> PriceOf(n)],
            [name |-> n]} : n \in NamesOf(game, key)}

\* a market as the API sends it: both outcomes, priced, with points outside h2h
StandardMarket(game, key) ==
    IF key = "totals"
    THEN [key |-> key,
          outcomes |-> <<[name |-> "Over", price |-> PriceOf("Over"), point |-> PointOf("Over")],
                         [name |-> "Under", price |-> PriceOf("Under"), point |-> PointOf("Under")]>>]
    ELSE IF key = "spreads"
    THEN [key |-> key,
          outcomes |-> <<[name |-> game.home_team, price |-> PriceOf(game.home_team),
                          point |-> PointOf(game.home_team)],
                         [name |-> game.away_team, price |-> PriceOf(game.away_team),
                          point |-> PointOf(game.away_team)]>>]
    ELSE [key |-> key,
          outcomes |-> <<[name |-> game.home_team, price |-> PriceOf(game.home_team)],
                         [name |-> game.away_team, price |-> PriceOf(game.away_team)]>>]

\* a market with any outcome list up to MaxOutcomes, or with no outcomes key
FreeMarkets(game) ==
    UNION {{[key |-> k, outcomes |-> os] : os \in SeqsUpTo(OutcomesOf(game, k), MaxOutcomes)}
               \cup {[key |-> k]} : k \in MarketKeys}

\* market lists: one market free, standard markets before and after it
MarketLists(game) ==
    {<< >>} \cup
    UNION {{SubSeq(std, 1, cut) \o <<m>> \o SubSeq(std, cut + 1, Len(std)) :
               m \in FreeMarkets(game), cut \in 0..Len(std)} :
           std \in SeqsUpTo({StandardMarket(game, k) : k \in MarketKeys},
                            MaxMarkets - 1)}

BookmakerEntries(game) ==
    {[key |-> "betmgm", last_update |-> "2024-01-05T16:58:00Z"],
     [key |-> "fanduel"]}
    \cup UNION {{[key |-> "betmgm", last_update |-> "2024-01-05T16:58:00Z", markets |-> ms],
                 [key |-> "williamhill_us", markets |-> ms]} :
                ms \in MarketLists(game)}

TodayStr == "2024-01-05"
SnapshotTakenAt == "2024-01-05T17:00:00Z"
ApiSnapshotTimestamp == "2024-01-05T16:55:38Z"
ResponseReceivedAt == "Fri, 05 Jan 2024 17:00:01 GMT"

NotParsed == [parsed |-> FALSE]

ParseIdle ==
    /\ parseIn = [parsed |-> FALSE]
    /\ parseOut = NotParsed

InitParse ==
    /\ \E g \in Games : \E b \in BookmakerEntries(g) :
           parseIn = [game |-> g, bookmaker |-> b]
    /\ parseOut = NotParsed

\* row = parse_game_odds(game, bookmaker, ...) in each script's main
Parse ==
    /\ parseOut = NotParsed
    /\ parseOut' =
           [parsed |-> TRUE,
            current |-> parse_game_odds(parseIn.game, parseIn.bookmaker, TodayStr,
                                        SnapshotTakenAt, ResponseReceivedAt),
            historical |-> hist_parse_game_odds(parseIn.game, parseIn.bookmaker,
                                                TodayStr, SnapshotTakenAt,
                                                ApiSnapshotTimestamp,
                                                ResponseReceivedAt)]
    /\ UNCHANGED parseIn

----------------------------------------------------------------------------
(* The row collection of the two main functions *)

\* game.get("bookmakers", [])
BookmakersOf(game) ==
    IF "bookmakers" \in DOMAIN game THEN game.bookmakers ELSE << >>

BOOKMAKER_KEYS_betmgm_only == {"betmgm"}

\* fetch_historical_odds.py: BOOKMAKER_KEYS
BOOKMAKER_KEYS == {"betmgm", "williamhill_us"}

\* fetch_odds.py main, lines 161-170: the rows appended until a parse raises
RECURSIVE collect(_, _, _)
collect(games, gi, bi) ==
    IF gi > Len(games) THEN [rows |-> << >>, raised |-> FALSE]
    ELSE IF bi > Len(BookmakersOf(games[gi])) THEN collect(games, gi + 1, 1)
    ELSE LET row == parse_game_odds(games[gi], BookmakersOf(games[gi])[bi],
                                    TodayStr, SnapshotTakenAt, ResponseReceivedAt)
         IN  IF Raised(row) THEN [rows |-> << >>, raised |-> TRUE]
             ELSE LET more == collect(games, gi, bi + 1)
                  IN  [rows |-> <<row>> \o more.rows, raised |-> more.raised]

\* fetch_historical_odds.py main, lines 237-249: only the bookmakers in
\* BOOKMAKER_KEYS are parsed
RECURSIVE hist_collect(_, _, _, _)
hist_collect(games, gi, bi, api_snapshot_timestamp_utc) ==
    IF gi > Len(games) THEN [rows |-> << >>, raised |-> FALSE]
    ELSE IF bi > Len(BookmakersOf(games[gi]))
    THEN hist_collect(games, gi + 1, 1, api_snapshot_timestamp_utc)
    ELSE IF BookmakersOf(games[gi])[bi].key \notin BOOKMAKER_KEYS
    THEN hist_collect(games, gi, bi + 1, api_snapshot_timestamp_utc)
    ELSE LET row == hist_parse_game_odds(games[gi], BookmakersOf(games[gi])[bi],
                                         TodayStr, SnapshotTakenAt,
                                         api_snapshot_timestamp_utc,
                                         ResponseReceivedAt)
         IN  IF Raised(row) THEN [rows |-> << >>, raised |-> TRUE]
             ELSE LET more == hist_collect(games, gi, bi + 1,
                                           api_snapshot_timestamp_utc)
                  IN  [rows |-> <<row>> \o more.rows, raised |-> more.raised]

NoFile == <<"<no file>">>

\* fetch_odds.py main, lines 151-185: one sport; an exception ends the
\* collection and the rows appended before it are still written
run_current(reply) ==
    IF reply.status # "ok"
    THEN [rows |-> << >>, error |-> reply.status, written |-> NoFile]
    ELSE LET c == collect(reply.json, 1, 1)
         IN  [rows |-> c.rows,
              error |-> IF c.raised THEN "KeyError" ELSE "",
              written |-> IF c.rows # << >> THEN c.rows ELSE NoFile]

\* fetch_historical_odds.py main, lines 225-265: the try block of one day;
\* an exception leaves the day without a file
run_historical_day(reply) ==
    IF reply.status # "ok"
    THEN [rows |-> << >>, error |-> reply.status, written |-> NoFile]
    ELSE LET games == IF "data" \in DOMAIN reply.json THEN reply.json.data ELSE << >>
             stamp == IF "timestamp" \in DOMAIN reply.json
                      THEN reply.json.timestamp ELSE ""
             c == hist_collect(games, 1, 1, stamp)
         IN  [rows |-> c.rows,
              error |-> IF c.raised THEN "KeyError" ELSE "",
              written |-> IF ~c.raised /\ c.rows # << >> THEN c.rows ELSE NoFile]

----------------------------------------------------------------------------
(* SpecFetch: one run of fetch_odds.py, or one day of the historical loop *)

MaxGames == 2
MaxBookmakers == 2
MaxEntries == 3

GameIds == <<"g1", "g2", "g3", "g4", "g5">>

\* the bookmaker entries of a reply: kept without markets, another
\* bookmaker's, kept with every market, and one whose h2h home outcome has
\* no price
FetchEntries(game) ==
    {[key |-> "betmgm", last_update |-> "2024-01-05T16:58:00Z"],
     [key |-> "fanduel", last_update |-> "2024-01-05T16:57:00Z",
      markets |-> <<StandardMarket(game, "h2h"), StandardMarket(game, "spreads"),
                    StandardMarket(game, "totals")>>],
     [key |-> "williamhill_us", last_update |-> "2024-01-05T16:59:00Z",
      markets |-> <<StandardMarket(game, "h2h"), StandardMarket(game, "spreads"),
                    StandardMarket(game, "totals")>>],
     [key |-> "betmgm", last_update |-> "2024-01-05T16:58:00Z",
      markets |-> <<[key |-> "h2h",
                     outcomes |-> <<[name |-> game.home_team],
                                    [name |-> game.away_team,
                                     price |-> PriceOf(game.away_team)]>>]>>]}

RECURSIVE SumTo(_, _)
SumTo(sizes, n) == IF n = 0 THEN 0 ELSE sizes[n] + SumTo(sizes, n - 1)

\* the games of a reply: the entries flat cut into games of the sizes given;
\* a game without entries has no "bookmakers" key when bare
GamesOf(game, flat, sizes, bare) ==
    [i \in 1..Len(sizes) |->
        LET base == [id |-> GameIds[i], sport_key |-> game.sport_key,
                     commence_time |-> game.commence_time,
                     home_team |-> game.home_team, away_team |-> game.away_team]
        IN  IF sizes[i] = 0 /\ bare THEN base
            ELSE [k \in (DOMAIN base) \cup {"bookmakers"} |->
                     IF k = "bookmakers"
                     THEN SubSeq(flat, SumTo(sizes, i - 1) + 1, SumTo(sizes, i))
                     ELSE base[k]]]

GameLists ==
    UNION {UNION {{GamesOf(g, flat, sizes, bare) :
                      sizes \in {z \in [1..n -> 0..MaxBookmakers] : SumTo(z, n) = Len(flat)},
                      bare \in BOOLEAN} :
                  flat \in SeqsUpTo(FetchEntries(g), MaxEntries), n \in 0..MaxGames} :
           g \in Games}

\* what requests.get and raise_for_status give: an error, or the JSON body
Replies(script) ==
    {[status |-> "HTTPError"], [status |-> "ConnectionError"]}
    \cup (IF script = "current"
          THEN {[status |-> "ok", json |-> gs] : gs \in GameLists}
          ELSE {[status |-> "ok", json |-> [data |-> gs, timestamp |-> ApiSnapshotTimestamp]] :
                    gs \in GameLists}
               \cup {[status |-> "ok", json |-> [data |-> gs]] : gs \in GameLists}
               \cup {[status |-> "ok", json |-> [timestamp |-> ApiSnapshotTimestamp]]})

NotRun == [ran |-> FALSE]

FetchIdle ==
    /\ fetchIn = [script |-> "none"]
    /\ fetchOut = NotRun

InitFetch ==
    /\ \E script \in {"current", "historical"} : \E reply \in Replies(script) :
           fetchIn = [script |-> script, reply |-> reply]
    /\ fetchOut = NotRun

RunCurrent ==
    /\ fetchIn.script = "current"
    /\ fetchOut = NotRun
    /\ LET r == run_current(fetchIn.reply)
       IN  fetchOut' = [ran |-> TRUE, rows |-> r.rows, error |-> r.error,
                        written |-> r.written]
    /\ UNCHANGED fetchIn

RunHistoricalDay ==
    /\ fetchIn.script = "historical"
    /\ fetchOut = NotRun
    /\ LET r == run_historical_day(fetchIn.reply)
       IN  fetchOut' = [ran |-> TRUE, rows |-> r.rows, error |-> r.error,
                        written |-> r.written]
    /\ UNCHANGED fetchIn

----------------------------------------------------------------------------
(* fetch_historical_odds.py main: the date-range loop, lines 184-273.  A   *)
(* date is its ordinal, the day count datetime keeps.                      *)

\* datetime.max is 9999-12-31, ordinal 3652059
DATETIME_MAX == 3652059

\* current.strftime("%Y-%m-%d"), for the dates of December 9999
strftime(d) ==
    <<"9", "9", "9", "9", "-", "1", "2", "-">> \o Fmt02(31 - (DATETIME_MAX - d))

OUTPUT_DIR == "odds-data/historical"

EXISTING_FILE_DIRS == <<"odds-data/historical", "odds-data">>

\* str.strip() of blanks
RECURSIVE StripText(_)
StripText(s) ==
    IF s # << >> /\ Head(s) = " " THEN StripText(Tail(s))
    ELSE IF s # << >> /\ s[Len(s)] = " " THEN StripText(SubSeq(s, 1, Len(s) - 1))
    ELSE s

\* os.path.join(directory, name)
PathJoin(directory, name) == [dir |-> directory, name |-> name]

NoPath == [dir |-> "", name |-> EmptyText]

\* line 206: odds_<date>.csv, or odds_<date>_<label>.csv with a label
Filename(date_str, snapshot_label) ==
    IF snapshot_label = EmptyText THEN OddsPrefix \o date_str \o CsvSuffix
    ELSE OddsPrefix \o date_str \o <<"_">> \o snapshot_label \o CsvSuffix

ShouldSkipOutputDirOnly(date_str, snapshot_label, exists) ==
    PathJoin(OUTPUT_DIR, Filename(date_str, snapshot_label)) \in exists

\* lines 209-223: with a label, the labeled file itself exists; without,
\* odds_<date>.csv exists in one of EXISTING_FILE_DIRS
ShouldSkip(date_str, snapshot_label, exists) ==
    IF snapshot_label # EmptyText
    THEN PathJoin(OUTPUT_DIR, Filename(date_str, snapshot_label)) \in exists
    ELSE \E i \in 1..Len(EXISTING_FILE_DIRS) :
             PathJoin(EXISTING_FILE_DIRS[i], OddsPrefix \o date_str \o CsvSuffix)
                 \in exists

\* current += timedelta(days=1): OverflowError past datetime.max
Advance(d) ==
    IF d < DATETIME_MAX THEN [pc |-> "loop", current |-> d + 1]
    ELSE [pc |-> "OverflowError", current |-> d]

AfterDayRetry(d, error) ==
    IF error # "" THEN [pc |-> "loop", current |-> d] ELSE Advance(d)

\* lines 262-269: whatever the try block did, the loop moves to the next date
AfterDay(d, error) == Advance(d)

\* which of the four prints of lines 257-265 the day ends with
DayOutcome(r) ==
    IF r.error = "HTTPError" THEN "http_error"
    ELSE IF r.error # "" THEN "error"
    ELSE IF r.rows # << >> THEN "rows"
    ELSE "no_games"

\* lines 251-255: the day's file was opened for writing
Opened(r) == r.error = "" /\ r.rows # << >>

----------------------------------------------------------------------------
(* SpecLoop: one run of fetch_historical_odds.py over a date range *)

MaxDays == 2
MaxFiles == 1

\* the dates of the runs: the last MaxDays + 1 dates datetime has
LoopDates == (DATETIME_MAX - MaxDays)..DATETIME_MAX

SnapshotLabels == {EmptyText, <<" ">>, <<"o", "p", "e", "n", " ">>}

\* the files a run may find: the day's file in each directory and its
\* labeled file
CandidateFiles ==
    UNION {{PathJoin("odds-data/historical", Filename(strftime(d), EmptyText)),
            PathJoin("odds-data", Filename(strftime(d), EmptyText)),
            PathJoin("odds-data/historical",
                     Filename(strftime(d), <<"o", "p", "e", "n">>))} :
           d \in LoopDates}

Disks == {S \in SUBSET CandidateFiles : Cardinality(S) <= MaxFiles}

\* what fetch_historical_odds gives for a day: an error, a body without
\* data, or one game with one of the bookmaker entries
DayReplies ==
    {[status |-> "HTTPError"], [status |-> "ConnectionError"],
     [status |-> "ok", json |-> [timestamp |-> ApiSnapshotTimestamp]]}
    \cup UNION {{[status |-> "ok",
                  json |-> [data |-> GamesOf(g, <<e>>, <<1>>, FALSE),
                            timestamp |-> ApiSnapshotTimestamp]] :
                    e \in FetchEntries(g)} : g \in Games}

LoopIdle ==
    /\ loopArgs = [start_date |-> 0, end_date |-> 0, snapshot_label |-> EmptyText]
    /\ current = 0
    /\ pc = "idle"
    /\ disk = {}
    /\ log = << >>

\* lines 176-192: the arguments parsed, current = start_date
InitLoop ==
    /\ \E s \in LoopDates, e \in LoopDates, l \in SnapshotLabels :
           /\ s <= e + 1
           /\ loopArgs = [start_date |-> s, end_date |-> e, snapshot_label |-> l]
    /\ current = loopArgs.start_date
    /\ pc = "loop"
    /\ disk \in Disks
    /\ log = << >>

\* lines 203-223: a date whose file is there is skipped
SkipDay ==
    /\ pc = "loop"
    /\ current <= loopArgs.end_date
    /\ ShouldSkip(strftime(current), StripText(loopArgs.snapshot_label), disk)
    /\ log' = Append(log, [date |-> current, outcome |-> "skipped",
                           called |-> FALSE, rows |-> 0, opened |-> NoPath,
                           before |-> disk])
    /\ pc' = Advance(current).pc
    /\ current' = Advance(current).current
    /\ UNCHANGED <<loopArgs, disk>>

\* lines 203-269: a date that is not skipped is fetched, parsed and written
FetchDay ==
    /\ pc = "loop"
    /\ current <= loopArgs.end_date
    /\ ~ShouldSkip(strftime(current), StripText(loopArgs.snapshot_label), disk)
    /\ \E reply \in DayReplies :
           LET r == run_historical_day(reply)
               output_file == PathJoin(OUTPUT_DIR,
                                       Filename(strftime(current),
                                                StripText(loopArgs.snapshot_label)))
           IN  /\ disk' = IF Opened(r) THEN disk \cup {output_file} ELSE disk
               /\ log' = Append(log, [date |-> current, outcome |-> DayOutcome(r),
                                      called |-> TRUE, rows |-> Len(r.rows),
                                      opened |-> IF Opened(r) THEN output_file
                                                 ELSE NoPath,
                                      before |-> disk])
               /\ pc' = AfterDay(current, r.error).pc
               /\ current' = AfterDay(current, r.error).current
    /\ UNCHANGED loopArgs

\* line 203: current > end_date ends the loop; lines 271-273 follow
Finish ==
    /\ pc = "loop"
    /\ current > loopArgs.end_date
    /\ pc' = "done"
    /\ UNCHANGED <<loopArgs, current, disk, log>>

----------------------------------------------------------------------------
(* Specifications *)

InferInit == InitInfer /\ BackfillIdle /\ ParseIdle /\ FetchIdle /\ LoopIdle

InferNext == Infer /\ UNCHANGED <<backfillVars, parseVars, fetchVars, loopVars>>

SpecInfer == InferInit /\ [][InferNext]_vars

BackfillInit == InitBackfill /\ InferIdle /\ ParseIdle /\ FetchIdle /\ LoopIdle

BackfillNext == ProcessFile /\ UNCHANGED <<inferVars, parseVars, fetchVars, loopVars>>

SpecBackfill == BackfillInit /\ [][BackfillNext]_vars

ParseInit == InitParse /\ InferIdle /\ BackfillIdle /\ FetchIdle /\ LoopIdle

ParseNext == Parse /\ UNCHANGED <<inferVars, backfillVars, fetchVars, loopVars>>

SpecParse == ParseInit /\ [][ParseNext]_vars

FetchInit == InitFetch /\ InferIdle /\ BackfillIdle /\ ParseIdle /\ LoopIdle

FetchNext ==
    \/ RunCurrent /\ UNCHANGED <<inferVars, backfillVars, parseVars, loopVars>>
    \/ RunHistoricalDay /\ UNCHANGED <<inferVars, backfillVars, parseVars, loopVars>>

SpecFetch == FetchInit /\ [][FetchNext]_vars

LoopInit == InitLoop /\ InferIdle /\ BackfillIdle /\ ParseIdle /\ FetchIdle

LoopNext ==
    \/ SkipDay /\ UNCHANGED <<inferVars, backfillVars, parseVars, fetchVars>>
    \/ FetchDay /\ UNCHANGED <<inferVars, backfillVars, parseVars, fetchVars>>
    \/ Finish /\ UNCHANGED <<inferVars, backfillVars, parseVars, fetchVars>>

SpecLoop == LoopInit /\ [][LoopNext]_vars

\* the loop is sequential code: a step that can be taken is taken, each
\* request returning a reply or raising
SpecLoopFair == LoopInit /\ [][LoopNext]_vars /\ WF_vars(LoopNext)

----------------------------------------------------------------------------
(* Claims about infer_snapshot_timestamp, checked under SpecInfer *)

Inferred == inferResult # NotCalled

HasHistoricalDir ==
    \E i \in 1..Len(inferPath.dirs) : inferPath.dirs[i] = "historical"

\* the canonical form of a stamp, from its six fields
CanonicalOf(st) ==
    st.y \o <<"-">> \o st.mo \o <<"-">> \o st.d \o <<"T">> \o st.h \o <<":">>
        \o st.mi \o <<":">> \o st.s \o <<"Z">>

\* the hours 0..23 as two digits
HourTexts ==
    <<<<"0", "0">>, <<"0", "1">>, <<"0", "2">>, <<"0", "3">>, <<"0", "4">>, <<"0", "5">>,
     <<"0", "6">>, <<"0", "7">>, <<"0", "8">>, <<"0", "9">>, <<"1", "0">>, <<"1", "1">>,
     <<"1", "2">>, <<"1", "3">>, <<"1", "4">>, <<"1", "5">>, <<"1", "6">>, <<"1", "7">>,
     <<"1", "8">>, <<"1", "9">>, <<"2", "0">>, <<"2", "1">>, <<"2", "2">>, <<"2", "3">>>>

MidnightTail == <<":", "0", "0", ":", "0", "0", "Z">>

\* C4: for every name odds_<date>_<label>_<YYYYMMDDTHHMMSSZ>.csv, in any
\* directory and for any historical hour, the result is the trailing stamp
\* rewritten as YYYY-MM-DDTHH:MM:SSZ.
C4_StampedNameGivesItsStamp ==
    (Inferred /\ inferPath.shape.kind = "stamped")
        => inferResult = CanonicalOf(inferPath.shape.stamp)

\* C5: a bare-date name odds_<date>.csv gives <date>T<hh>:00:00Z under a
\* directory segment named exactly "historical" and <date>T00:00:00Z anywhere
\* else, for every hour 0..23; a name that matches none of the three
\* patterns gives the empty string.
C5_BareDateByDirectory ==
    Inferred =>
        /\ inferPath.shape.kind = "bare" =>
               inferResult = inferPath.shape.date \o <<"T">>
                   \o (IF HasHistoricalDir THEN HourTexts[inferHour + 1]
                       ELSE <<"0", "0">>)
                   \o MidnightTail
        /\ inferPath.shape.kind = "other" => inferResult = EmptyText
        /\ (/\ ~TIMESTAMPED_RE(inferPath.name)
            /\ ~HISTORICAL_DATE_RE(inferPath.name)
            /\ ~PLAIN_DATE_RE(inferPath.name)) => inferResult = EmptyText

C5_Witness ==
    /\ Inferred
    /\ inferPath.shape.kind = "bare"
    /\ HasHistoricalDir
    /\ inferHour = 23
    /\ inferResult = inferPath.shape.date \o <<"T", "2", "3">> \o MidnightTail

----------------------------------------------------------------------------
(* Claims about process_file, checked under SpecBackfill *)

Called == call.status # "none"

RowsOf(f) == IF f = << >> THEN << >> ELSE DictRows(f[1], Tail(f))

\* a row's snapshot_taken_at_utc as text: empty when absent or None
SnapOf(row) == CsvCell(PyGet(row, SNAPSHOT, EmptyText))

\* C1: no call changes a snapshot_taken_at_utc that was non-empty, and when
\* the inference gives the empty string no row's value is replaced at all; a
\* call that returns keeps every row.
C1_PresentSnapshotKept ==
    Called =>
        LET b == RowsOf(call.before)
            a == RowsOf(file)
        IN  /\ Len(a) <= Len(b)
            /\ call.status = "returned" => Len(a) = Len(b)
            /\ \A i \in 1..Len(a) :
                   /\ SnapOf(b[i]) # EmptyText => SnapOf(a[i]) = SnapOf(b[i])
                   /\ call.inferred = EmptyText => SnapOf(a[i]) = SnapOf(b[i])

C1_Witness ==
    /\ call.status = "returned"
    /\ call.wrote
    /\ call.inferred # EmptyText
    /\ LET b == RowsOf(call.before)
           a == RowsOf(file)
       IN  \E i, j \in 1..Len(a) :
               /\ SnapOf(b[i]) = OldStamp /\ SnapOf(a[i]) = OldStamp
               /\ SnapOf(b[j]) = EmptyText /\ SnapOf(a[j]) = call.inferred

\* C2: after a call that was no dry run and returned on a file with a
\* header, the next call (whatever its hour and dry-run flag) returns
\* changed = False with "already up to date" and leaves the file as it was.
C2_SecondRunUpToDate ==
    (/\ prev.status = "returned"
     /\ ~prev.dry_run
     /\ prev.reason # "empty/no header")
        => /\ call.status = "returned"
           /\ ~call.changed
           /\ call.reason = "already up to date"
           /\ ~call.wrote
           /\ file = call.before

C2_Witness ==
    /\ prev.status = "returned" /\ ~prev.dry_run
    /\ prev.changed /\ prev.reason = "updated"
    /\ call.status = "returned" /\ ~call.changed
    /\ call.reason = "already up to date"
    /\ \E i \in 1..Len(RowsOf(file)) : SnapOf(RowsOf(file)[i]) = EmptyText

HeaderLacksColumn(f) ==
    f # << >> /\ \E i \in 1..Len(TIMESTAMP_COLUMNS) :
                     TIMESTAMP_COLUMNS[i] \notin Range(f[1])

\* some row's value differs after the call: in the file when the row was
\* written, in memory when the write stopped before it
SomeValueChanged ==
    LET b == RowsOf(call.before)
        a == RowsOf(file)
    IN  \E i \in 1..Len(b) :
            IF i <= Len(a) THEN a[i].cells # b[i].cells
            ELSE ProcessRow(b[i], call.inferred).row # b[i]

\* C3: the file is opened for writing only when a timestamp column was
\* added to the header or a row value changed, never in a dry run; a call
\* that does not write leaves the file's contents as they were.
C3_WriteOnlyOnChange ==
    Called =>
        /\ call.wrote => (HeaderLacksColumn(call.before) \/ SomeValueChanged)
        /\ call.dry_run => (~call.wrote /\ file = call.before)
        /\ ~call.wrote => file = call.before

C3_Witness ==
    /\ Called
    /\ call.dry_run
    /\ call.changed
    /\ ~call.wrote
    /\ file = call.before
    /\ ~HeaderLacksColumn(call.before)

----------------------------------------------------------------------------
(* Claims about parse_game_odds, checked under SpecParse *)

Parsed == parseOut.parsed

EntryMarkets == MarketsOf(parseIn.bookmaker)

\* the bookmaker entry's market list has no market with this key
Lacks(key) == \A i \in 1..Len(EntryMarkets) : EntryMarkets[i].key # key

FieldsOf(key) ==
    IF key = "h2h" THEN {"ml_home", "ml_away"}
    ELSE IF key = "spreads"
    THEN {"spread_home", "spread_home_odds", "spread_away", "spread_away_odds"}
    ELSE {"total_line", "total_over_odds", "total_under_odds"}

\* the entry follows the data model: every market lists its outcomes and
\* every outcome carries a price
FollowsDataModel ==
    \A i \in 1..Len(EntryMarkets) :
        /\ "outcomes" \in DOMAIN EntryMarkets[i]
        /\ \A j \in 1..Len(EntryMarkets[i].outcomes) :
               "price" \in DOMAIN EntryMarkets[i].outcomes[j]

\* the rows the two scripts returned
RowsReturned ==
    {r \in {parseOut.current, parseOut.historical} : ~Raised(r)}

\* the market the scripts read for a key: the first one in the list
TheMarket(key) ==
    EntryMarkets[CHOOSE i \in 1..Len(EntryMarkets) :
                     /\ EntryMarkets[i].key = key
                     /\ \A j \in 1..(i - 1) : EntryMarkets[j].key # key]

Has(key, name) ==
    /\ ~Lacks(key)
    /\ "outcomes" \in DOMAIN TheMarket(key)
    /\ \E j \in 1..Len(TheMarket(key).outcomes) : TheMarket(key).outcomes[j].name = name

\* the outcome of that name that counts: the last one
TheOutcome(key, name) ==
    LET os == TheMarket(key).outcomes
    IN  os[CHOOSE j \in 1..Len(os) :
               /\ os[j].name = name
               /\ \A k \in (j + 1)..Len(os) : os[k].name # name]

FieldOr(o, field) == IF field \in DOMAIN o THEN o[field] ELSE ""

\* C6: a market key the entry lacks leaves every field of that market in the
\* row, equal to the empty string, whatever other markets are there, in both
\* scripts; an entry that follows the data model always gets its row.
C6_LackingMarketFieldsEmpty ==
    Parsed =>
        /\ FollowsDataModel => (~Raised(parseOut.current) /\ ~Raised(parseOut.historical))
        /\ \A r \in RowsReturned : \A key \in MarketKeys :
               Lacks(key) => \A f \in FieldsOf(key) : f \in DOMAIN r /\ r[f] = ""

C6_Witness ==
    /\ Parsed
    /\ Lacks("spreads") /\ ~Lacks("h2h") /\ ~Lacks("totals")
    /\ \A r \in {parseOut.current, parseOut.historical} :
           /\ ~Raised(r)
           /\ r.ml_home # "" /\ r.total_line # ""
           /\ \A f \in FieldsOf("spreads") : r[f] = ""

\* C7: total_line is the point of the outcome named "Over" alone: with only
\* "Under" there, total_line and total_over_odds are empty and
\* total_under_odds is Under's price; with both, total_line is Over's point
\* whatever Under's point is.
C7_TotalLineFromOverOnly ==
    Parsed => \A r \in RowsReturned :
        /\ (~Has("totals", "Over") /\ Has("totals", "Under")) =>
               /\ r.total_line = ""
               /\ r.total_over_odds = ""
               /\ r.total_under_odds = FieldOr(TheOutcome("totals", "Under"), "price")
        /\ (Has("totals", "Over") /\ Has("totals", "Under")) =>
               /\ r.total_line = FieldOr(TheOutcome("totals", "Over"), "point")
               /\ r.total_over_odds = FieldOr(TheOutcome("totals", "Over"), "price")
               /\ r.total_under_odds = FieldOr(TheOutcome("totals", "Under"), "price")

C7_Witness ==
    /\ Parsed
    /\ ~Has("totals", "Over") /\ Has("totals", "Under")
    /\ "point" \in DOMAIN TheOutcome("totals", "Under")
    /\ \A r \in {parseOut.current, parseOut.historical} :
           /\ ~Raised(r)
           /\ r.total_line = "" /\ r.total_over_odds = ""
           /\ r.total_under_odds = "-115"

\* C8: each side is looked up by its own team name: in h2h a side that is
\* there gives its price and a side that is not gives the empty string,
\* whatever the other side; in spreads a side that is there gives its point
\* and price and a side that is not leaves both fields empty.
C8_SidesIndependent ==
    Parsed => \A r \in RowsReturned :
        LET home == parseIn.game.home_team
            away == parseIn.game.away_team
        IN  /\ IF Has("h2h", home)
               THEN /\ "price" \in DOMAIN TheOutcome("h2h", home)
                    /\ r.ml_home = TheOutcome("h2h", home).price
               ELSE r.ml_home = ""
            /\ IF Has("h2h", away)
               THEN /\ "price" \in DOMAIN TheOutcome("h2h", away)
                    /\ r.ml_away = TheOutcome("h2h", away).price
               ELSE r.ml_away = ""
            /\ r.spread_home = IF Has("spreads", home)
                               THEN FieldOr(TheOutcome("spreads", home), "point") ELSE ""
            /\ r.spread_home_odds = IF Has("spreads", home)
                                    THEN FieldOr(TheOutcome("spreads", home), "price") ELSE ""
            /\ r.spread_away = IF Has("spreads", away)
                               THEN FieldOr(TheOutcome("spreads", away), "point") ELSE ""
            /\ r.spread_away_odds = IF Has("spreads", away)
                                    THEN FieldOr(TheOutcome("spreads", away), "price") ELSE ""

C8_Witness ==
    /\ Parsed
    /\ Has("h2h", parseIn.game.away_team) /\ ~Has("h2h", parseIn.game.home_team)
    /\ Has("spreads", parseIn.game.home_team) /\ Has("spreads", parseIn.game.away_team)
    /\ \A r \in {parseOut.current, parseOut.historical} :
           /\ ~Raised(r)
           /\ r.ml_home = "" /\ r.ml_away = "+130"
           /\ r.spread_home = "-1.5" /\ r.spread_home_odds = "-150"
           /\ r.spread_away = "+1.5" /\ r.spread_away_odds = "+130"

\* C9: parse_game_odds raises no error for missing markets, outcomes, prices
\* or points: it always returns a row.
C9_NeverRaises ==
    Parsed => (~Raised(parseOut.current) /\ ~Raised(parseOut.historical))

----------------------------------------------------------------------------
(* Claims about the row collection, checked under SpecFetch *)

Fetched == fetchOut.ran /\ fetchIn.reply.status = "ok"

\* the games of the reply's JSON body
FetchedGames ==
    IF fetchIn.script = "current" THEN fetchIn.reply.json
    ELSE IF "data" \in DOMAIN fetchIn.reply.json THEN fetchIn.reply.json.data
    ELSE << >>

\* the (game, bookmaker entry) pairs of a list of games, in order
RECURSIVE PairsOf(_)
PairsOf(games) ==
    IF games = << >> THEN << >>
    ELSE [i \in 1..Len(BookmakersOf(Head(games))) |->
             [game |-> Head(games), entry |-> BookmakersOf(Head(games))[i]]]
         \o PairsOf(Tail(games))

IsBetmgmOrCaesars(pair) == pair.entry.key \in {"betmgm", "williamhill_us"}

\* the pairs a script makes rows of
KeptPairs ==
    IF fetchIn.script = "current" THEN PairsOf(FetchedGames)
    ELSE SelectSeq(PairsOf(FetchedGames), IsBetmgmOrCaesars)

ShownAs(key) ==
    IF fetchIn.script = "historical" /\ key = "williamhill_us" THEN "caesars" ELSE key

PairFollowsDataModel(pair) ==
    \A i \in 1..Len(MarketsOf(pair.entry)) :
        LET m == MarketsOf(pair.entry)[i]
        IN  /\ "outcomes" \in DOMAIN m
            /\ \A j \in 1..Len(m.outcomes) : "price" \in DOMAIN m.outcomes[j]

\* C10 as stated: the rows collected for a reply are as many as the
\* bookmaker entries summed over its games, in both scripts.
C10_OneRowPerEntry ==
    (Fetched /\ fetchOut.error = "")
        => Len(fetchOut.rows) = Len(PairsOf(FetchedGames))

\* C10 as amended: the rows are one per pair the script keeps, in order:
\* every pair for the current-odds fetcher, the pairs whose bookmaker key is
\* betmgm or williamhill_us for the historical fetcher; an entry without
\* markets has its row, with empty market fields; the count falls short only
\* when a parse raised, and then the rows are those of the pairs before it.
C10_OneRowPerKeptEntry ==
    Fetched =>
        LET rows == fetchOut.rows
            kept == KeptPairs
        IN  /\ Len(rows) <= Len(kept)
            /\ \A k \in 1..Len(rows) :
                   /\ rows[k].game_id = kept[k].game.id
                   /\ rows[k].bookmaker = ShownAs(kept[k].entry.key)
                   /\ MarketsOf(kept[k].entry) = << >> =>
                          \A key \in MarketKeys : \A f \in FieldsOf(key) : rows[k][f] = ""
            /\ fetchOut.error = "" => Len(rows) = Len(kept)
            /\ fetchOut.error # "" =>
                   /\ Len(rows) < Len(kept)
                   /\ ~PairFollowsDataModel(kept[Len(rows) + 1])

C10_Witness ==
    /\ Fetched
    /\ fetchIn.script = "historical"
    /\ fetchOut.error = ""
    /\ Len(FetchedGames) = 2
    /\ Len(PairsOf(FetchedGames)) = 3
    /\ Len(fetchOut.rows) = 2
    /\ fetchOut.written = fetchOut.rows
    /\ \E k \in 1..2 : "markets" \notin DOMAIN KeptPairs[k].entry
    /\ \E k \in 1..2 : fetchOut.rows[k].bookmaker = "caesars"

----------------------------------------------------------------------------
(* Claims about the historical date-range loop, checked under SpecLoop and *)
(* SpecLoopFair                                                            *)

\* the dates from start_date to end_date, ascending
RangeDays ==
    [i \in 1..(loopArgs.end_date - loopArgs.start_date + 1) |->
        loopArgs.start_date + i - 1]

\* the dates visited so far are the first dates of the range, each once
VisitedInOrder ==
    /\ Len(log) <= Len(RangeDays)
    /\ \A k \in 1..Len(log) : log[k].date = RangeDays[k]

LoopEnded == pc \in {"done", "OverflowError"}

\* C11: a day that fails (an HTTP error or any other exception) is not
\* retried and does not stop the loop: the dates visited are always the
\* first dates of start_date..end_date in ascending order, each once,
\* whether skipped, written, without games or failed; the loop ends, and
\* when it has ended every date of the range has been visited.  The end is
\* the loop condition, except for an end_date of 9999-12-31, where the last
\* advance raises OverflowError after that date was visited.
C11_EveryDayVisitedOnce ==
    /\ [](pc # "idle" => VisitedInOrder)
    /\ [](LoopEnded => Len(log) = Len(RangeDays))
    /\ [](pc = "OverflowError" => loopArgs.end_date = DATETIME_MAX)
    /\ <>LoopEnded

C11_Witness ==
    /\ pc = "done"
    /\ Len(log) = 2
    /\ log[1].outcome \in {"http_error", "error"}
    /\ log[2].outcome = "rows"
    /\ log[1].date = loopArgs.start_date
    /\ log[2].date = loopArgs.end_date

\* the label the run uses: --snapshot-label without its surrounding blanks
RunLabel == StripText(loopArgs.snapshot_label)

DayFile(directory, d) ==
    [dir |-> directory, name |-> OddsPrefix \o strftime(d) \o CsvSuffix]

LabeledFile(d) ==
    [dir |-> "odds-data/historical",
     name |-> OddsPrefix \o strftime(d) \o <<"_">> \o RunLabel \o CsvSuffix]

OutputFile(d) ==
    IF RunLabel = EmptyText THEN DayFile("odds-data/historical", d) ELSE LabeledFile(d)

\* C12: no existing file is overwritten and no file is written for a day
\* with zero rows: without a label a day is skipped, with no HTTP call,
\* exactly when odds_<date>.csv exists in odds-data/historical or in
\* odds-data; with a label exactly when the labeled file exists; a file is
\* opened for writing only on a day not skipped that gave at least one row,
\* it is that day's output file, and it did not exist.
C12_NoOverwriteNoEmptyFile ==
    \A k \in 1..Len(log) :
        LET e == log[k]
        IN  /\ (e.outcome = "skipped") <=>
                   IF RunLabel = EmptyText
                   THEN \/ DayFile("odds-data/historical", e.date) \in e.before
                        \/ DayFile("odds-data", e.date) \in e.before
                   ELSE LabeledFile(e.date) \in e.before
            /\ e.outcome = "skipped" => (~e.called /\ e.opened = NoPath)
            /\ e.outcome # "skipped" => e.called
            /\ e.opened # NoPath =>
                   /\ e.outcome = "rows"
                   /\ e.rows > 0
                   /\ e.opened = OutputFile(e.date)
                   /\ e.opened \notin e.before
            /\ e.rows = 0 => e.opened = NoPath
            /\ e.before \subseteq disk

C12_Witness ==
    /\ RunLabel = EmptyText
    /\ Len(log) = 3
    /\ \E k \in 1..3 :
           /\ log[k].outcome = "skipped"
           /\ DayFile("odds-data", log[k].date) \in log[k].before
           /\ DayFile("odds-data/historical", log[k].date) \notin log[k].before
    /\ \E k \in 1..3 : log[k].outcome = "no_games" /\ log[k].opened = NoPath
    /\ \E k \in 1..3 :
           /\ log[k].outcome = "rows"
           /\ log[k].opened = DayFile("odds-data/historical", log[k].date)
           /\ log[k].opened \in disk

----------------------------------------------------------------------------
====
